---- MODULE Spec2Model ----
(***************************************************************************)
(* The stream resolver of bincooo/cohere-api.                              *)
(*                                                                         *)
(* The repository holds two revisions of the client, both `package cohere`:*)
(*   v1  src/chat.go               resolve at lines 109-147                *)
(*   v2  src/unnamed/part_000      resolve at lines 219-270                *)
(* The model runs one resolve goroutine of either revision (ver) over one  *)
(* response body, together with the consumer of the channel and the        *)
(* context that governs the request.                                       *)
(*                                                                         *)
(* Two further specifications cover the rest of the package: BuilderSpec   *)
(* runs New, the option setters and makePayload on one Chat, and MergeSpec *)
(* runs MergeMessages (v2 only) on one list of messages.  Each             *)
(* specification leaves the variables of the others at rest.               *)
(*                                                                         *)
(* Bytes are one-character strings.  The wire format is abstracted to a    *)
(* small JSON-like language: a document is "{" fields "}", where every     *)
(* field symbol stands for one key/value pair of the block:                *)
(*   F  "is_finished":true          T  "event_type":"text-generation"      *)
(*   C  "event_type":"tool-calls-generation"                               *)
(*   S  "event_type":"stream-start" h  "text":"h"                          *)
(*   k  "tool_calls":[k]                                                   *)
(* A carriage return between the symbols is JSON whitespace.               *)
(***************************************************************************)
EXTENDS Integers, Sequences, FiniteSets, TLC

VARIABLES
    ver,         \* which revision of resolve runs: "v1" or "v2"
    lines,       \* the terminated lines of the response body (input)
    tail,        \* unterminated bytes after the last line (input)
    data,        \* the response body: all bytes of the stream
    pos,         \* bytes the transport has handed to the bufio.Reader
    rbuf,        \* bufio.Reader: buffered, not yet returned bytes (b.buf[b.r:b.w])
    rerr,        \* bufio.Reader: pending read error (b.err)
    buf,         \* resolve: the accumulation buffer (bytes.Buffer)
    pc,          \* resolve: "read", "send", "ret" (running defers), "done"
    sendq,       \* events of the current iteration not yet received; the
                 \* goroutine is suspended in `ch <- Head(sendq)`
    after,       \* where resolve goes after the last pending send
    out,         \* events the consumer has received from the channel
    closes,      \* how many times close(ch) has run
    bodyClosed,  \* response.Body.Close() has run
    abandoned,   \* the consumer has stopped receiving
    cancelled,   \* the request context has been cancelled
    cancelledAfterAbandon, \* ... and the consumer had abandoned by then
    failedReads, \* transport reads that failed with a non-EOF error
    trace,       \* log of the loop iterations: [kind, line, ev]
    newArgs,     \* Chat: the arguments New was called with
    chat,        \* Chat: the fields of the receiver *Chat
    call,        \* Chat: the last method call: [op, arg, ret]
    messages,    \* MergeMessages: the argument
    mpos,        \* MergeMessages: index of the message the loop is at
    lastRole,    \* MergeMessages: lastRole
    mbuf,        \* MergeMessages: buf, as the strings written to it
    mret,        \* MergeMessages: the string returned
    mpc          \* MergeMessages: "loop", "done"

vars == <<ver, lines, tail, data, pos, rbuf, rerr, buf, pc, sendq, after,
          out, closes, bodyClosed, abandoned, cancelled, cancelledAfterAbandon,
          failedReads, trace, newArgs, chat, call, messages, mpos, lastRole,
          mbuf, mret, mpc>>

\* ------------------------------------------------------------------ bounds

\* Most bytes in one response body.
MaxBody == 14

\* Size of the bufio.Reader's buffer (4096 in the library), scaled down so
\* that catalogue lines are shorter than, equal to and longer than it.
ReaderSize == 4

\* The longest response body of the runs checked for liveness.
MaxLiveBody == 6

\* The longest list of messages given to MergeMessages.
MaxMessages == 3

\* ------------------------------------------------------------------- bytes

NL == "\n"

CR == "\r"

NoErr == "nil"

EOF == "EOF"

ErrCanceled == "context canceled"

ErrBufferFull == "bufio: buffer full"

Null == "null"

FieldSyms == {"F", "T", "C", "S", "h", "k"}

\* Lines a server may send, without the "\n" that ends each.  The stream-start
\* line is sent with a "\r\n" line end.
LineCatalogue ==
    { <<"{", "T", "h", "}">>,        \* text-generation, text "h"
      <<"{", "T", "}">>,             \* text-generation, empty text
      <<"{", "C", "k", "}">>,        \* tool-calls-generation with tool calls
      <<"{", "S", "}", CR>>,         \* stream-start
      <<"{", "F", "T", "h", "}">>,   \* finish signal carrying text fields
      <<"{", "F", "C", "k", "}">>,   \* finish signal carrying tool calls
      <<"{", "T">> }                 \* malformed: truncated object

\* Unterminated bytes at the end of the body.
TailCatalogue ==
    { <<>>,
      <<"{", "T">>,                  \* like {"partial
      <<"{", "T", "h", "}">> }       \* a whole object, newline missing

RECURSIVE Flatten(_)
Flatten(ls) ==
    IF ls = <<>> THEN <<>> ELSE Head(ls) \o <<NL>> \o Flatten(Tail(ls))

\* The sequences of catalogue lines that take at most n bytes on the wire.
RECURSIVE Bodies(_)
Bodies(n) ==
    { <<>> } \cup
    UNION { { <<l>> \o rest : rest \in Bodies(n - Len(l) - 1) } :
            l \in { c \in LineCatalogue : Len(c) + 1 <= n } }

Min(a, b) == IF a < b THEN a ELSE b

Last(s) == s[Len(s)]

\* ------------------------------------------------------------ bufio.Reader

HasNL(s) == \E i \in 1..Len(s) : s[i] = NL

FirstNL(s) == CHOOSE i \in 1..Len(s) : s[i] = NL /\ \A j \in 1..(i - 1) : s[j] # NL

\* ReadSlice('\n') can return without another transport read: a delimiter is
\* buffered, an error is pending, or the buffer is full.
CanReturn(rb, re) == HasNL(rb) \/ re # NoErr \/ Len(rb) >= ReaderSize

\* bufio.Reader.ReadSlice('\n') once it can return: the delimiter first, then
\* a pending error (cleared by readErr), then a full buffer.
ReadSlice(rb, re) ==
    IF HasNL(rb)
    THEN [line |-> SubSeq(rb, 1, FirstNL(rb)), err |-> NoErr,
          rbuf |-> SubSeq(rb, FirstNL(rb) + 1, Len(rb)), rerr |-> re]
    ELSE IF re # NoErr
    THEN [line |-> rb, err |-> re, rbuf |-> <<>>, rerr |-> NoErr]
    ELSE [line |-> rb, err |-> ErrBufferFull, rbuf |-> <<>>, rerr |-> re]

\* Drop the line end ("\n" or "\r\n") of a line ReadSlice returned.
DropEol(l) ==
    IF Last(l) # NL THEN l
    ELSE IF Len(l) > 1 /\ l[Len(l) - 1] = CR THEN SubSeq(l, 1, Len(l) - 2)
    ELSE SubSeq(l, 1, Len(l) - 1)

\* bufio.Reader.ReadLine: (line, isPrefix, err) and the reader's new state.
\* It returns a line or an error, never both: an error that arrives with
\* buffered bytes is dropped and the bytes are returned as a line.
ReadLine(rb, re) ==
    LET s == ReadSlice(rb, re) IN
    IF s.err = ErrBufferFull
    THEN IF s.line # <<>> /\ Last(s.line) = CR
         THEN [line |-> SubSeq(s.line, 1, Len(s.line) - 1), prefix |-> TRUE,
               err |-> NoErr, rbuf |-> <<CR>>, rerr |-> s.rerr]
         ELSE [line |-> s.line, prefix |-> TRUE, err |-> NoErr,
               rbuf |-> s.rbuf, rerr |-> s.rerr]
    ELSE IF s.line = <<>>
    THEN [line |-> <<>>, prefix |-> FALSE, err |-> s.err,
          rbuf |-> s.rbuf, rerr |-> s.rerr]
    ELSE [line |-> DropEol(s.line), prefix |-> FALSE, err |-> NoErr,
          rbuf |-> s.rbuf, rerr |-> s.rerr]

\* ------------------------------------------------------------ encoding/json

StripSpace(s) == SelectSeq(s, LAMBDA x : x # CR)

IsDocument(w) ==
    /\ Len(w) >= 2
    /\ w[1] = "{"
    /\ w[Len(w)] = "}"
    /\ \A i \in 2..(Len(w) - 1) : w[i] \in FieldSyms

\* A proper prefix of a document: the input ends inside the object.
IsTruncated(w) ==
    \/ w = <<>>
    \/ /\ w[1] = "{"
       /\ \A i \in 2..Len(w) : w[i] \in FieldSyms

EventName(sym) ==
    CASE sym = "T" -> "text-generation"
      [] sym = "C" -> "tool-calls-generation"
      [] sym = "S" -> "stream-start"
      [] OTHER -> ""

\* The value of the last field among `syms` (a repeated key: the last wins).
LastOf(fields, syms) ==
    LET hits == SelectSeq(fields, LAMBDA x : x \in syms)
    IN  IF hits = <<>> THEN "" ELSE Last(hits)

\* json.Unmarshal(buf.Bytes(), &b) into the block of revision v.  The v1
\* block has no ToolCalls field: the key is ignored.
Unmarshal(v, s) ==
    LET w      == StripSpace(s)
        fields == SubSeq(w, 2, Len(w) - 1)
    IN  IF ~IsDocument(w)
        THEN [ok |-> FALSE,
              err |-> IF IsTruncated(w) THEN "unexpected end of JSON input"
                      ELSE "invalid character",
              Finished |-> FALSE, Event |-> "", Text |-> <<>>, ToolCalls |-> Null]
        ELSE [ok |-> TRUE, err |-> NoErr,
              Finished  |-> LastOf(fields, {"F"}) = "F",
              Event     |-> EventName(LastOf(fields, {"T", "C", "S"})),
              Text      |-> IF LastOf(fields, {"h"}) = "" THEN <<>>
                            ELSE <<LastOf(fields, {"h"})>>,
              ToolCalls |-> IF v = "v1" \/ LastOf(fields, {"k"}) = "" THEN Null
                            ELSE <<LastOf(fields, {"k"})>>]

\* json.Marshal(b.ToolCalls): compact JSON; a nil slice encodes as null.
\* Values that Unmarshal produced always encode.
Marshal(tc) ==
    IF tc = Null THEN [ok |-> TRUE, err |-> NoErr, out |-> <<Null>>]
    ELSE [ok |-> TRUE, err |-> NoErr, out |-> <<"[">> \o tc \o <<"]">>]

\* ------------------------------------------------------------------ events

TextEvent(s) == <<"text: ", s>>

ToolEvent(s) == <<"tool: ", s>>

ErrorEvent(e) == <<"error: ", e>>

IsError(ev) == ev[1] = "error: "

\* ------------------------------------------------------------------- state

\* No Chat is being configured.
BuilderIdle ==
    /\ newArgs = Null
    /\ chat = Null
    /\ call = Null

\* No MergeMessages call is running.
MergeIdle ==
    /\ messages = <<>>
    /\ mpos = 0
    /\ lastRole = ""
    /\ mbuf = <<>>
    /\ mret = Null
    /\ mpc = "idle"

builder == <<newArgs, chat, call>>

merger == <<messages, mpos, lastRole, mbuf, mret, mpc>>

Init ==
    /\ BuilderIdle
    /\ MergeIdle
    /\ ver \in {"v1", "v2"}
    /\ lines \in Bodies(MaxBody)
    /\ tail \in { t \in TailCatalogue : Len(Flatten(lines)) + Len(t) <= MaxBody }
    /\ data = Flatten(lines) \o tail
    /\ pos = 0
    /\ rbuf = <<>>
    /\ rerr = NoErr
    /\ buf = <<>>
    /\ pc = "read"
    /\ sendq = <<>>
    /\ after = "read"
    /\ out = <<>>
    /\ closes = 0
    /\ bodyClosed = FALSE
    /\ abandoned = FALSE
    /\ cancelled = FALSE
    /\ cancelledAfterAbandon = FALSE
    /\ failedReads = 0
    /\ trace = <<>>

\* What resolve, its consumer and the context leave alone: the input of the
\* run and the state of the other specifications.
input == <<ver, lines, tail, data, builder, merger>>

\* No resolve is running (the state of the resolver in the other
\* specifications).
ResolverIdle ==
    /\ lines = <<>>
    /\ tail = <<>>
    /\ data = <<>>
    /\ pos = 0
    /\ rbuf = <<>>
    /\ rerr = NoErr
    /\ buf = <<>>
    /\ pc = "idle"
    /\ sendq = <<>>
    /\ after = "read"
    /\ out = <<>>
    /\ closes = 0
    /\ bodyClosed = FALSE
    /\ abandoned = FALSE
    /\ cancelled = FALSE
    /\ cancelledAfterAbandon = FALSE
    /\ failedReads = 0
    /\ trace = <<>>

resolver == <<lines, tail, data, pos, rbuf, rerr, buf, pc, sendq, after, out,
              closes, bodyClosed, abandoned, cancelled, cancelledAfterAbandon,
              failedReads, trace>>

world == <<abandoned, cancelled, cancelledAfterAbandon>>

\* --------------------------------------------------- transport (Body.Read)

\* The body of an http.Response: a Read hands over at least one byte or an
\* error; the end of the stream and a failure, once reported, are reported by
\* every later Read.  io.EOF may come with the last bytes or on a Read of its
\* own (io.Reader allows both, and the http transport does both).

\* ReadSlice needs more bytes and calls fill: one Read of the response body.
NeedsFill == pc = "read" /\ ~CanReturn(rbuf, rerr)

\* The body hands over the next n bytes, as many as it likes of what is left
\* and fits; with the last bytes it may or may not report io.EOF already.
FillData ==
    /\ NeedsFill
    /\ ~cancelled
    /\ pos < Len(data)
    /\ \E n \in 1..Min(ReaderSize - Len(rbuf), Len(data) - pos) :
       \E withEOF \in BOOLEAN :
          /\ withEOF => pos + n = Len(data)
          /\ rbuf' = rbuf \o SubSeq(data, pos + 1, pos + n)
          /\ pos' = pos + n
          /\ rerr' = IF withEOF THEN EOF ELSE NoErr
    /\ UNCHANGED <<input, world, buf, pc, sendq, after, out, closes,
                   bodyClosed, failedReads, trace>>

\* The body is exhausted: Read returns (0, io.EOF), every time it is asked.
FillEOF ==
    /\ NeedsFill
    /\ ~cancelled
    /\ pos = Len(data)
    /\ rerr' = EOF
    /\ UNCHANGED <<input, world, pos, rbuf, buf, pc, sendq, after, out, closes,
                   bodyClosed, failedReads, trace>>

\* The context is cancelled: Read fails, every time it is asked.
FillError ==
    /\ NeedsFill
    /\ cancelled
    /\ rerr' = ErrCanceled
    /\ failedReads' = failedReads + 1
    /\ UNCHANGED <<input, world, pos, rbuf, buf, pc, sendq, after, out, closes,
                   bodyClosed, trace>>

\* ----------------------------------------------------------------- resolve

\* line, prefix, err := r.ReadLine()
RL == ReadLine(rbuf, rerr)

\* buf.Write(line)
Acc == buf \o RL.line

\* var b block; json.Unmarshal(buf.Bytes(), &b)
Blk == Unmarshal(ver, Acc)

\* r.ReadLine() returns.
Returned ==
    /\ pc = "read"
    /\ CanReturn(rbuf, rerr)
    /\ rbuf' = RL.rbuf
    /\ rerr' = RL.rerr

\* ch <- e for every e of events, in order, then go on at next.
Send(events, next) ==
    /\ sendq' = events
    /\ after' = next
    /\ pc' = IF events = <<>> THEN next ELSE "send"

Log(kind, events) ==
    trace' = Append(trace, [kind |-> kind, line |-> Acc, ev |-> events])

\* What the `if err != nil` branch sends: the error unless it is io.EOF, then
\* the accumulated bytes if there are any.
ErrEvents(err, acc) ==
    (IF err # EOF THEN <<ErrorEvent(err)>> ELSE <<>>)
    \o (IF Len(acc) > 0 THEN <<TextEvent(acc)>> ELSE <<>>)

\* Mutant of ReadErr: at the end of the stream with nothing accumulated the
\* loop reads again (`continue` for `return`).
ReadErrRetries ==
    /\ Returned
    /\ RL.err # NoErr
    /\ buf' = Acc
    /\ IF RL.err = EOF /\ Acc = <<>>
       THEN Send(<<>>, "read") /\ UNCHANGED trace
       ELSE Send(ErrEvents(RL.err, Acc), "ret")
            /\ Log("err", ErrEvents(RL.err, Acc))
    /\ UNCHANGED <<input, world, pos, out, closes, bodyClosed, failedReads>>

\* if err != nil { ...; return }
ReadErr ==
    /\ Returned
    /\ RL.err # NoErr
    /\ buf' = Acc
    /\ Send(ErrEvents(RL.err, Acc), "ret")
    /\ Log("err", ErrEvents(RL.err, Acc))
    /\ UNCHANGED <<input, world, pos, out, closes, bodyClosed, failedReads>>

\* Mutant of ReadPrefix: the fragment is not kept (buf.Write after the
\* prefix test instead of before it).
ReadPrefixDrops ==
    /\ Returned
    /\ RL.err = NoErr
    /\ RL.prefix
    /\ buf' = buf
    /\ Send(<<>>, "read")
    /\ Log("prefix", <<>>)
    /\ UNCHANGED <<input, world, pos, out, closes, bodyClosed, failedReads>>

\* if prefix { continue }
ReadPrefix ==
    /\ Returned
    /\ RL.err = NoErr
    /\ RL.prefix
    /\ buf' = Acc
    /\ Send(<<>>, "read")
    /\ Log("prefix", <<>>)
    /\ UNCHANGED <<input, world, pos, out, closes, bodyClosed, failedReads>>

\* A complete line is in buf.
Complete == Returned /\ RL.err = NoErr /\ ~RL.prefix

\* Mutant of DecodeFail: the malformed line is reported and skipped
\* (`continue` for `return`).
DecodeFailContinues ==
    /\ Complete
    /\ ~Blk.ok
    /\ buf' = <<>>
    /\ Send(<<ErrorEvent(Blk.err)>>, "read")
    /\ Log("decodeFail", <<ErrorEvent(Blk.err)>>)
    /\ UNCHANGED <<input, world, pos, out, closes, bodyClosed, failedReads>>

\* if err = json.Unmarshal(...); err != nil { ch <- error; return }
DecodeFail ==
    /\ Complete
    /\ ~Blk.ok
    /\ buf' = Acc
    /\ Send(<<ErrorEvent(Blk.err)>>, "ret")
    /\ Log("decodeFail", <<ErrorEvent(Blk.err)>>)
    /\ UNCHANGED <<input, world, pos, out, closes, bodyClosed, failedReads>>

\* Mutant of Finish: the finish signal is skipped like an unknown event
\* (`continue` for `return`).
FinishContinues ==
    /\ Complete
    /\ Blk.ok
    /\ Blk.Finished
    /\ buf' = <<>>
    /\ Send(<<>>, "read")
    /\ Log("finish", <<>>)
    /\ UNCHANGED <<input, world, pos, out, closes, bodyClosed, failedReads>>

\* buf.Reset(); if b.Finished { return }
Finish ==
    /\ Complete
    /\ Blk.ok
    /\ Blk.Finished
    /\ buf' = <<>>
    /\ Send(<<>>, "ret")
    /\ Log("finish", <<>>)
    /\ UNCHANGED <<input, world, pos, out, closes, bodyClosed, failedReads>>

\* Mutant of TextGen: the raw line is sent instead of the text field.
TextGenRaw ==
    /\ Complete
    /\ Blk.ok
    /\ ~Blk.Finished
    /\ Blk.Event = "text-generation"
    /\ buf' = <<>>
    /\ Send(<<TextEvent(Acc)>>, "read")
    /\ Log("text", <<TextEvent(Acc)>>)
    /\ UNCHANGED <<input, world, pos, out, closes, bodyClosed, failedReads>>

\* if b.Event == "text-generation" { ch <- "text: " + b.Text; continue }
TextGen ==
    /\ Complete
    /\ Blk.ok
    /\ ~Blk.Finished
    /\ Blk.Event = "text-generation"
    /\ buf' = <<>>
    /\ Send(<<TextEvent(Blk.Text)>>, "read")
    /\ Log("text", <<TextEvent(Blk.Text)>>)
    /\ UNCHANGED <<input, world, pos, out, closes, bodyClosed, failedReads>>

\* v2 only: if b.Event == "tool-calls-generation" { marshal; ch <- tool }
ToolEvents(tc) ==
    IF Marshal(tc).ok THEN <<ToolEvent(Marshal(tc).out)>>
    ELSE <<ErrorEvent(Marshal(tc).err)>>

ToolCalls ==
    /\ ver = "v2"
    /\ Complete
    /\ Blk.ok
    /\ ~Blk.Finished
    /\ Blk.Event = "tool-calls-generation"
    /\ buf' = <<>>
    /\ Send(ToolEvents(Blk.ToolCalls),
            IF Marshal(Blk.ToolCalls).ok THEN "read" ELSE "ret")
    /\ Log("tool", ToolEvents(Blk.ToolCalls))
    /\ UNCHANGED <<input, world, pos, out, closes, bodyClosed, failedReads>>

\* Mutant of OtherEvent: a block of an unknown event ends the stream
\* (`return` for falling through to the next iteration).
OtherEventReturns ==
    /\ Complete
    /\ Blk.ok
    /\ ~Blk.Finished
    /\ Blk.Event # "text-generation"
    /\ ver = "v2" => Blk.Event # "tool-calls-generation"
    /\ buf' = <<>>
    /\ Send(<<>>, "ret")
    /\ Log("other", <<>>)
    /\ UNCHANGED <<input, world, pos, out, closes, bodyClosed, failedReads>>

\* Any other block: nothing is sent and the loop goes round.  In v1 this
\* includes tool-calls-generation.
OtherEvent ==
    /\ Complete
    /\ Blk.ok
    /\ ~Blk.Finished
    /\ Blk.Event # "text-generation"
    /\ ver = "v2" => Blk.Event # "tool-calls-generation"
    /\ buf' = <<>>
    /\ Send(<<>>, "read")
    /\ Log("other", <<>>)
    /\ UNCHANGED <<input, world, pos, out, closes, bodyClosed, failedReads>>

\* v1: defer close(ch)
DeferV1 ==
    /\ ver = "v1"
    /\ pc = "ret"
    /\ closes' = closes + 1
    /\ pc' = "done"
    /\ UNCHANGED <<input, world, pos, rbuf, rerr, buf, sendq, after, out,
                   bodyClosed, failedReads, trace>>

\* Mutant of DeferV2: the channel is not closed when resolve returns.
DeferV2NoClose ==
    /\ ver = "v2"
    /\ pc = "ret"
    /\ bodyClosed' = TRUE
    /\ pc' = "done"
    /\ UNCHANGED <<input, world, pos, rbuf, rerr, buf, sendq, after, out,
                   closes, failedReads, trace>>

\* v2: defer close(ch); defer response.Body.Close() (run in reverse order)
DeferV2 ==
    /\ ver = "v2"
    /\ pc = "ret"
    /\ bodyClosed' = TRUE
    /\ closes' = closes + 1
    /\ pc' = "done"
    /\ UNCHANGED <<input, world, pos, rbuf, rerr, buf, sendq, after, out,
                   failedReads, trace>>

\* ------------------------------------------------- consumer and context

\* Mutant of Recv: the consumer sees the received event twice.
RecvTwice ==
    /\ pc = "send"
    /\ ~abandoned
    /\ out' = out \o <<Head(sendq), Head(sendq)>>
    /\ sendq' = Tail(sendq)
    /\ pc' = IF Tail(sendq) = <<>> THEN after ELSE "send"
    /\ UNCHANGED <<input, world, pos, rbuf, rerr, buf, after, closes,
                   bodyClosed, failedReads, trace>>

\* The consumer receives from the unbuffered channel: the send completes.
Recv ==
    /\ pc = "send"
    /\ ~abandoned
    /\ out' = Append(out, Head(sendq))
    /\ sendq' = Tail(sendq)
    /\ pc' = IF Tail(sendq) = <<>> THEN after ELSE "send"
    /\ UNCHANGED <<input, world, pos, rbuf, rerr, buf, after, closes,
                   bodyClosed, failedReads, trace>>

\* The consumer stops receiving.
Abandon ==
    /\ ~abandoned
    /\ pc \in {"read", "send"}
    /\ abandoned' = TRUE
    /\ UNCHANGED <<input, cancelled, cancelledAfterAbandon, pos, rbuf, rerr, buf, pc, sendq, after,
                   out, closes, bodyClosed, failedReads, trace>>

\* The context passed to Reply is cancelled.
Cancel ==
    /\ ~cancelled
    /\ pc \in {"read", "send"}
    /\ cancelled' = TRUE
    /\ cancelledAfterAbandon' = abandoned
    /\ UNCHANGED <<input, abandoned, pos, rbuf, rerr, buf, pc, sendq, after,
                   out, closes, bodyClosed, failedReads, trace>>

\* ------------------------------------------------------------ specification

Resolver ==
    \/ FillData
    \/ FillEOF
    \/ FillError
    \/ ReadErr
    \/ ReadPrefix
    \/ DecodeFail
    \/ Finish
    \/ TextGen
    \/ ToolCalls
    \/ OtherEvent
    \/ DeferV1
    \/ DeferV2

Next ==
    \/ Resolver
    \/ Recv
    \/ Abandon
    \/ Cancel

Spec == Init /\ [][Next]_vars

\* The Go scheduler keeps running a goroutine that can run, and a Read of the
\* body returns.  Nothing obliges the consumer to receive.
LiveSpec == Spec /\ WF_vars(Resolver)

\* The bodies of at most MaxLiveBody bytes.
LiveInit == Init /\ Len(data) <= MaxLiveBody

\* As LiveSpec, over the short bodies, with a consumer that receives whenever
\* resolve is suspended in a send, for as long as it has not abandoned the
\* channel.
FairSpec ==
    LiveInit /\ [][Next]_vars /\ WF_vars(Resolver) /\ WF_vars(Recv)

\* ------------------------------------------------- reference execution

\* One iteration of the loop of resolve (revision v) after ReadLine returned
\* rl with b accumulated: the events it sends, whether the loop goes round
\* again, and the accumulation buffer it leaves.
Iteration(v, rl, b) ==
    LET acc == b \o rl.line
        blk == Unmarshal(v, acc)
    IN  IF rl.err # NoErr
        THEN [ev |-> ErrEvents(rl.err, acc), cont |-> FALSE, buf |-> acc]
        ELSE IF rl.prefix
        THEN [ev |-> <<>>, cont |-> TRUE, buf |-> acc]
        ELSE IF ~blk.ok
        THEN [ev |-> <<ErrorEvent(blk.err)>>, cont |-> FALSE, buf |-> acc]
        ELSE IF blk.Finished
        THEN [ev |-> <<>>, cont |-> FALSE, buf |-> <<>>]
        ELSE IF blk.Event = "text-generation"
        THEN [ev |-> <<TextEvent(blk.Text)>>, cont |-> TRUE, buf |-> <<>>]
        ELSE IF v = "v2" /\ blk.Event = "tool-calls-generation"
        THEN [ev |-> ToolEvents(blk.ToolCalls),
              cont |-> Marshal(blk.ToolCalls).ok, buf |-> <<>>]
        ELSE [ev |-> <<>>, cont |-> TRUE, buf |-> <<>>]

\* The events resolve sends for body d when the body is not split: every
\* Read hands over all the bytes that fit, and io.EOF comes on its own after
\* the last byte (as bytes.Reader and strings.Reader deliver it).
RECURSIVE Unsplit(_, _, _, _, _, _)
Unsplit(v, d, p, rb, re, b) ==
    IF CanReturn(rb, re)
    THEN LET rl == ReadLine(rb, re)
             it == Iteration(v, rl, b)
         IN  IF it.cont
             THEN it.ev \o Unsplit(v, d, p, rl.rbuf, rl.rerr, it.buf)
             ELSE it.ev
    ELSE IF p = Len(d)
    THEN Unsplit(v, d, p, rb, EOF, b)
    ELSE LET n == Min(ReaderSize - Len(rb), Len(d) - p)
         IN  Unsplit(v, d, p + n, rb \o SubSeq(d, p + 1, p + n), NoErr, b)

\* ------------------------------------------------------- Chat (builder)

\* Temperatures are in hundredths: 95 is the float32 0.95.
DefaultTemperature == 95

DefaultSeed == -1

DefaultTopK == 40

DefaultMaxTokens == 4096

\* The arguments tried.
Temperatures == {-100, 0, 70}

IntArgs == {-1, 0, 1, 2}

SafetyArgs == {"", "STRICT"}

StopArgs == {<<>>, <<"a">>, <<"b">>}

\* The arguments of Reply, of which makePayload makes no decision.
Model == "command-r"

History == <<>>

System == "sys"

Message == "hi"

Tools == <<"tool">>

ToolResults == <<>>

\* v1: New(token, temperature, seed, model).  token and proxies take no part
\* in the payload and are left out.
NewV1(temperature, seed) ==
    [temperature |-> temperature, model |-> Model, seed |-> seed]

\* v2: New(token, temperature, model, isChat).  token, proxies and client take
\* no part in the payload and are left out, with their setters.
NewV2(temperature, isChat) ==
    [temperature   |-> temperature,
     maxTokens     |-> DefaultMaxTokens,
     model         |-> Model,
     seed          |-> DefaultSeed,
     isChat        |-> isChat,
     stopSequences |-> <<>>,
     topK          |-> DefaultTopK,
     safety        |-> ""]

BuilderInit ==
    /\ ResolverIdle
    /\ MergeIdle
    /\ ver \in {"v1", "v2"}
    /\ \E t \in Temperatures :
          \/ /\ ver = "v1"
             /\ \E n \in IntArgs :
                   /\ newArgs = [temperature |-> t, seed |-> n]
                   /\ chat = NewV1(t, n)
          \/ /\ ver = "v2"
             /\ \E b \in BOOLEAN :
                   /\ newArgs = [temperature |-> t, isChat |-> b]
                   /\ chat = NewV2(t, b)
    /\ call = [op |-> "New", arg |-> Null, ret |-> Null]

\* A call of method op with argument arg that returns nothing.
Called(op, arg) == call' = [op |-> op, arg |-> arg, ret |-> Null]

\* func (c *Chat) MaxTokens(maxTokens int)
MaxTokens ==
    /\ ver = "v2"
    /\ \E n \in IntArgs :
          /\ Called("MaxTokens", n)
          /\ chat' = IF n < 1 THEN chat ELSE [chat EXCEPT !.maxTokens = n]
    /\ UNCHANGED <<ver, newArgs, resolver, merger>>

\* func (c *Chat) TopK(topK int)
TopK ==
    /\ ver = "v2"
    /\ \E n \in IntArgs :
          /\ Called("TopK", n)
          /\ chat' = IF n < 1 THEN chat ELSE [chat EXCEPT !.topK = n]
    /\ UNCHANGED <<ver, newArgs, resolver, merger>>

\* Mutant of Seed: zero is taken for a seed (`seed < 0` for `seed < 1`).
SeedZero ==
    /\ ver = "v2"
    /\ \E n \in IntArgs :
          /\ Called("Seed", n)
          /\ chat' = IF n < 0 THEN chat ELSE [chat EXCEPT !.seed = n]
    /\ UNCHANGED <<ver, newArgs, resolver, merger>>

\* func (c *Chat) Seed(seed int)
Seed ==
    /\ ver = "v2"
    /\ \E n \in IntArgs :
          /\ Called("Seed", n)
          /\ chat' = IF n < 1 THEN chat ELSE [chat EXCEPT !.seed = n]
    /\ UNCHANGED <<ver, newArgs, resolver, merger>>

\* func (c *Chat) Safety(safety string)
Safety ==
    /\ ver = "v2"
    /\ \E m \in SafetyArgs :
          /\ Called("Safety", m)
          /\ chat' = [chat EXCEPT !.safety = m]
    /\ UNCHANGED <<ver, newArgs, resolver, merger>>

\* func (c *Chat) StopSequences(stopSequences []string)
StopSequences ==
    /\ ver = "v2"
    /\ \E ss \in StopArgs :
          /\ Called("StopSequences", ss)
          /\ chat' = IF Len(ss) = 0 THEN chat
                     ELSE [chat EXCEPT !.stopSequences = ss]
    /\ UNCHANGED <<ver, newArgs, resolver, merger>>

\* Mutant of PayloadKeys: a seed of zero is sent (`c.seed >= 0`).
PayloadKeysSeedZero(v, c) ==
    IF v = "v1"
    THEN {"chat_history", "connectors", "message", "model", "preamble",
          "prompt_truncation", "stream", "temperature"}
         \cup (IF c.seed >= 0 THEN {"seed"} ELSE {})
    ELSE (IF c.isChat
          THEN {"chat_history", "connectors", "message", "model", "preamble",
                "prompt_truncation", "stream", "temperature", "tools",
                "tool_results"}
               \cup (IF c.seed >= 0 THEN {"seed"} ELSE {})
               \cup (IF c.safety # "" THEN {"safety_mode"} ELSE {})
          ELSE {"k", "model", "max_tokens", "prompt", "raw_prompting",
                "stream", "temperature"})
         \cup (IF Len(c.stopSequences) > 0 THEN {"stop_sequences"} ELSE {})

\* The keys of the map makePayload of revision v builds for Chat c.
PayloadKeys(v, c) ==
    IF v = "v1"
    THEN {"chat_history", "connectors", "message", "model", "preamble",
          "prompt_truncation", "stream", "temperature"}
         \cup (IF c.seed > 0 THEN {"seed"} ELSE {})
    ELSE (IF c.isChat
          THEN {"chat_history", "connectors", "message", "model", "preamble",
                "prompt_truncation", "stream", "temperature", "tools",
                "tool_results"}
               \cup (IF c.seed > 0 THEN {"seed"} ELSE {})
               \cup (IF c.safety # "" THEN {"safety_mode"} ELSE {})
          ELSE {"k", "model", "max_tokens", "prompt", "raw_prompting",
                "stream", "temperature"})
         \cup (IF Len(c.stopSequences) > 0 THEN {"stop_sequences"} ELSE {})

\* The value makePayload puts under key k.
PayloadValue(c, k) ==
    CASE k = "chat_history" -> History
      [] k = "connectors" -> <<>>
      [] k = "message" -> Message
      [] k = "model" -> c.model
      [] k = "preamble" -> System
      [] k = "prompt_truncation" -> "OFF"
      [] k = "stream" -> TRUE
      [] k = "temperature" -> c.temperature
      [] k = "tools" -> Tools
      [] k = "tool_results" -> ToolResults
      [] k = "seed" -> c.seed
      [] k = "safety_mode" -> c.safety
      [] k = "k" -> c.topK
      [] k = "max_tokens" -> c.maxTokens
      [] k = "prompt" -> Message
      [] k = "raw_prompting" -> FALSE
      [] k = "stop_sequences" -> c.stopSequences

Payload(v, c) == [k \in PayloadKeys(v, c) |-> PayloadValue(c, k)]

\* if c.temperature < 0 { c.temperature = 0.95 }
Temperature(c) ==
    IF c.temperature < 0 THEN DefaultTemperature ELSE c.temperature

\* Mutant of MakePayload: the default goes into the payload and is not
\* stored in the Chat.
MakePayloadLocal ==
    /\ chat' = chat
    /\ call' = [op  |-> "makePayload", arg |-> Null,
                ret |-> Payload(ver, [chat EXCEPT
                                        !.temperature = Temperature(chat)])]
    /\ UNCHANGED <<ver, newArgs, resolver, merger>>

\* Reply calls c.makePayload(pMessages, system, message, c.isChat, toolObject)
\* (v1: c.makePayload(pMessages, system, message)).
MakePayload ==
    /\ chat' = [chat EXCEPT !.temperature = Temperature(chat)]
    /\ call' = [op |-> "makePayload", arg |-> Null, ret |-> Payload(ver, chat')]
    /\ UNCHANGED <<ver, newArgs, resolver, merger>>

BuilderNext ==
    \/ MaxTokens
    \/ TopK
    \/ Seed
    \/ Safety
    \/ StopSequences
    \/ MakePayload

BuilderSpec == BuilderInit /\ [][BuilderNext]_vars

\* ----------------------------------------------------------- MergeMessages

\* The values of message["role"] and message["content"] tried; a message
\* without a "role" key reads as the empty role.
Roles == {"", "user", "bot"}

Contents == {"a", "b"}

Messages == [role : Roles, content : Contents]

MessageLists(n) == UNION { [1..k -> Messages] : k \in 0..n }

\* MergeMessages(messages) is called; lastRole := ""; buf := new(bytes.Buffer)
MergeInit ==
    /\ ResolverIdle
    /\ BuilderIdle
    /\ ver = "v2"
    /\ messages \in MessageLists(MaxMessages)
    /\ mpos = 1
    /\ lastRole = ""
    /\ mbuf = <<>>
    /\ mret = Null
    /\ mpc = "loop"

\* fmt.Sprintf("\n%s: %s", role, content), as the strings put together
Header(role, content) == <<"\n", role, ": ", content>>

\* fmt.Sprintf("\n%s", content)
Bare(content) == <<"\n", content>>

\* if len(messages) == 0 { return "" }
MergeEmpty ==
    /\ mpc = "loop"
    /\ Len(messages) = 0
    /\ mret' = <<>>
    /\ mpc' = "done"
    /\ UNCHANGED <<ver, resolver, builder, messages, mpos, lastRole, mbuf>>

\* if lastRole == "" || lastRole != message["role"] { ...; continue }
MergeHeader ==
    /\ mpc = "loop"
    /\ mpos <= Len(messages)
    /\ lastRole = "" \/ lastRole # messages[mpos].role
    /\ lastRole' = messages[mpos].role
    /\ mbuf' = mbuf \o Header(messages[mpos].role, messages[mpos].content)
    /\ mpos' = mpos + 1
    /\ UNCHANGED <<ver, resolver, builder, messages, mret, mpc>>

\* buf.WriteString(fmt.Sprintf("\n%s", message["content"]))
MergeBare ==
    /\ mpc = "loop"
    /\ mpos <= Len(messages)
    /\ ~(lastRole = "" \/ lastRole # messages[mpos].role)
    /\ mbuf' = mbuf \o Bare(messages[mpos].content)
    /\ mpos' = mpos + 1
    /\ UNCHANGED <<ver, resolver, builder, messages, lastRole, mret, mpc>>

\* return buf.String()
MergeReturn ==
    /\ mpc = "loop"
    /\ Len(messages) > 0
    /\ mpos > Len(messages)
    /\ mret' = mbuf
    /\ mpc' = "done"
    /\ UNCHANGED <<ver, resolver, builder, messages, mpos, lastRole, mbuf>>

MergeNext ==
    \/ MergeEmpty
    \/ MergeHeader
    \/ MergeBare
    \/ MergeReturn

MergeSpec == MergeInit /\ [][MergeNext]_vars

\* ------------------------------------------------------------------ claims

\* Every event resolve has sent or is suspended sending, in order.
Emitted == out \o sendq

RECURSIVE Concat(_)
Concat(ss) == IF ss = <<>> THEN <<>> ELSE Head(ss) \o Concat(Tail(ss))

\* The events the loop iterations sent, in order.
TraceEvents == Concat([i \in 1..Len(trace) |-> trace[i].ev])

ErrCount(evs) == Cardinality({i \in 1..Len(evs) : IsError(evs[i])})

\* Iteration i decoded a complete line (ReadLine gave neither an error nor a
\* fragment).
Decoded(i) == trace[i].kind \notin {"err", "prefix"}

\* The block in the line of iteration i, with every field of the wire format.
LineBlock(i) == Unmarshal("v2", trace[i].line)

\* The events revision v sends for a complete line l.
LineEvents(v, l) ==
    Iteration(v, [line |-> l, prefix |-> FALSE, err |-> NoErr], <<>>).ev

\* Every terminated line of the body decodes and none is a finish signal:
\* resolve gets as far as the bytes after the last line.
ReachesTail ==
    \A i \in 1..Len(lines) :
        Unmarshal("v2", lines[i]).ok /\ ~Unmarshal("v2", lines[i]).Finished

\* Iteration i was the last one so far and the loop goes round after it.
Continues(i) ==
    i = Len(trace) =>
        \/ pc = "read"
        \/ pc = "send" /\ after = "read" /\ sendq = trace[i].ev

\* C1: the channel is closed exactly once per resolve, when resolve has
\* returned on whichever path, after the last event was sent, and nothing is
\* sent on it after the close.
C1_ChannelClosedOnce ==
    /\ [](/\ closes <= 1
          /\ pc = "done" <=> closes = 1
          /\ closes = 1 => sendq = <<>>)
    /\ [][closes >= 1 => (out' = out /\ sendq' = sendq)]_vars

\* C1 witness: resolve returned on the read-error path after sending the
\* error and the salvaged bytes, and the channel is closed.
C1_Witness ==
    /\ pc = "done"
    /\ closes = 1
    /\ Len(out) = 2
    /\ trace[Len(trace)].kind = "err"

\* C2: whenever resolve has returned, the response body is closed.
C2_BodyClosedOnReturn == pc = "done" => bodyClosed

\* C2, revision v2 alone: the deferred Body.Close() has run on every return.
C2_BodyClosedOnReturnV2 == (ver = "v2" /\ pc = "done") => bodyClosed

\* C3: unterminated bytes at the end of a cleanly ended stream yield exactly
\* one event, "text: " followed by those bytes, and no error: event.
C3_TrailingBytesSalvaged ==
    (pc = "done" /\ ~cancelled /\ ~abandoned /\ tail # <<>> /\ ReachesTail) =>
        out = Concat([i \in 1..Len(lines) |-> LineEvents(ver, lines[i])])
              \o <<TextEvent(tail)>>

\* C4: when a read of the body fails with an error other than io.EOF, exactly
\* one error: event is sent, it carries that error, and no read follows.
C4_ReadErrorReportedOnce ==
    (pc = "done" /\ failedReads >= 1 /\ ~abandoned) =>
        /\ failedReads = 1
        /\ ErrCount(out) = 1
        /\ \E i \in 1..Len(out) : out[i] = ErrorEvent(ErrCanceled)

\* C5: a complete line that does not decode yields exactly one error: event,
\* which is the last event of the stream, and ends the loop: no later line is
\* read or decoded.
C5_DecodeErrorIsFatal ==
    /\ Emitted = TraceEvents
    /\ \A i \in 1..Len(trace) :
        (Decoded(i) /\ ~LineBlock(i).ok) =>
            /\ i = Len(trace)
            /\ pc \in {"send", "ret", "done"}
            /\ pc = "send" => after = "ret"
            /\ trace[i].ev = <<ErrorEvent(LineBlock(i).err)>>
            /\ Last(Emitted) = ErrorEvent(LineBlock(i).err)
            /\ ErrCount(Emitted) = 1

\* C5 witness: a malformed first line, a good line after it; resolve has
\* returned and the consumer got the one error: event.
C5_Witness ==
    /\ pc = "done"
    /\ ~cancelled
    /\ lines = << <<"{", "T">>, <<"{", "T", "h", "}">> >>
    /\ out = <<ErrorEvent("unexpected end of JSON input")>>

\* C6: a decoded line whose finished flag is set ends the loop with no event
\* for that line and none after it, whatever else the line carries.
C6_FinishTerminates ==
    /\ Emitted = TraceEvents
    /\ \A i \in 1..Len(trace) :
        (Decoded(i) /\ LineBlock(i).ok /\ LineBlock(i).Finished) =>
            /\ i = Len(trace)
            /\ trace[i].ev = <<>>
            /\ sendq = <<>>
            /\ pc \in {"ret", "done"}

\* C6 witness: a finish signal carrying text-generation fields, followed by a
\* text line; resolve has returned and nothing was received.
C6_Witness ==
    /\ pc = "done"
    /\ ~cancelled
    /\ ~abandoned
    /\ lines = << <<"{", "F", "T", "h", "}">>, <<"{", "T", "h", "}">> >>
    /\ out = <<>>

\* C7: however the transport splits the body into reads, resolve sends the
\* events it sends for the unsplit body.
C7_ChunkIndependence ==
    (pc = "done" /\ ~cancelled) =>
        out = Unsplit(ver, data, 0, <<>>, NoErr, <<>>)

\* C8: once the consumer has abandoned the channel and the context is then
\* cancelled, resolve does not stay blocked: it has returned or it can take a
\* step.  (The consumer never comes back, so a resolve that cannot step now
\* never can.)
C8_CancelUnblocks == cancelledAfterAbandon => (pc = "done" \/ ENABLED Resolver)

\* C9: a decoded, unfinished text-generation line sends exactly one event,
\* "text: " followed by the block's text, and the loop goes round.
C9_TextGeneration ==
    /\ Emitted = TraceEvents
    /\ \A i \in 1..Len(trace) :
        (/\ Decoded(i)
         /\ LineBlock(i).ok
         /\ ~LineBlock(i).Finished
         /\ LineBlock(i).Event = "text-generation") =>
            /\ trace[i].ev = <<TextEvent(LineBlock(i).Text)>>
            /\ Continues(i)

\* C9 witness: a text line with empty text, then one with text "h"; both
\* events were received and resolve went on to the end of the stream.
C9_Witness ==
    /\ pc = "done"
    /\ lines = << <<"{", "T", "}">>, <<"{", "T", "h", "}">> >>
    /\ out = <<TextEvent(<<>>), TextEvent(<<"h">>)>>

\* C10: a decoded, unfinished tool-calls-generation line sends exactly one
\* event, "tool: " followed by the compact JSON of the line's tool calls, and
\* the loop goes round.
C10_ToolCalls ==
    \A i \in 1..Len(trace) :
        (/\ Decoded(i)
         /\ LineBlock(i).ok
         /\ ~LineBlock(i).Finished
         /\ LineBlock(i).Event = "tool-calls-generation") =>
            /\ trace[i].ev = <<ToolEvent(Marshal(LineBlock(i).ToolCalls).out)>>
            /\ Continues(i)

\* C10, revision v2 alone: the statement of C10 with the events recorded in
\* the channel as well.
C10_ToolCallsV2 ==
    ver = "v2" => (Emitted = TraceEvents /\ C10_ToolCalls)

\* C11: a line that decodes, is not a finish signal and whose event is neither
\* text-generation nor tool-calls-generation sends nothing; after it the loop
\* is back at ReadLine with an empty accumulation buffer and nothing pending,
\* as it is before the first byte of any line, and the events so far are those
\* of the earlier iterations alone.
C11_OtherEventSkipped ==
    \A i \in 1..Len(trace) :
        (/\ Decoded(i)
         /\ LineBlock(i).ok
         /\ ~LineBlock(i).Finished
         /\ LineBlock(i).Event \notin {"text-generation", "tool-calls-generation"})
        => /\ trace[i].ev = <<>>
           /\ i = Len(trace) =>
                /\ pc = "read"
                /\ buf = <<>>
                /\ sendq = <<>>
                /\ out = Concat([j \in 1..(i - 1) |-> trace[j].ev])

\* C11 witness: a stream-start line was skipped and the text line after it
\* was decoded and delivered.
C11_Witness ==
    /\ \E i, j \in 1..Len(trace) :
          /\ i < j
          /\ trace[i].kind = "other"
          /\ LineBlock(i).Event = "stream-start"
          /\ trace[j].kind = "text"
    /\ out = <<TextEvent(<<"h">>)>>

\* The bytes of terminated line l that ReadLine hands over in all: the line
\* without its end-of-line, which is "\n" or "\r\n".
Logical(l) ==
    IF l # <<>> /\ Last(l) = CR THEN SubSeq(l, 1, Len(l) - 1) ELSE l

\* The iterations that decoded a complete line, in order.
DecodedIterations ==
    SelectSeq(trace, LAMBDA e : e.kind \notin {"err", "prefix"})

\* The number of complete lines decoded before iteration i.
DecodedBefore(i) ==
    Cardinality({j \in 1..(i - 1) : Decoded(j)})

IsPrefixOf(a, b) == Len(a) <= Len(b) /\ a = SubSeq(b, 1, Len(a))

\* C14: while the body is read without a failure, the k-th decode is of the
\* bytes of the k-th newline-delimited line, all of them and nothing else,
\* however many fragments the reader cut it into, and it sends the events that
\* line sends when it is decoded in one piece; an iteration that got a
\* fragment sends nothing and holds a prefix of the line being assembled.
C14_LongLineReassembled ==
    ~cancelled =>
        /\ \A k \in 1..Len(DecodedIterations) :
              k <= Len(lines) =>
                /\ DecodedIterations[k].line = Logical(lines[k])
                /\ DecodedIterations[k].ev = LineEvents(ver, Logical(lines[k]))
        /\ \A i \in 1..Len(trace) :
              trace[i].kind = "prefix" =>
                /\ trace[i].ev = <<>>
                /\ DecodedBefore(i) < Len(lines) =>
                     IsPrefixOf(trace[i].line,
                                Logical(lines[DecodedBefore(i) + 1]))

\* C14 witness: a text line that fills the reader's buffer arrived as a
\* fragment and a final piece, was decoded once, and its text was delivered.
C14_Witness ==
    /\ ~cancelled
    /\ Len(trace) = 2
    /\ trace[1].kind = "prefix"
    /\ trace[2].kind = "text"
    /\ Len(trace[2].line) >= ReaderSize
    /\ trace[2].line = lines[1]
    /\ out = trace[2].ev
    /\ out # <<>>

\* C15: after every iteration that decoded a complete line, whether the
\* decode succeeded or failed, the accumulation buffer is empty; while resolve
\* is reading, the buffer is non-empty only after a fragment; and every decode
\* is of the bytes of one newline-delimited line of the body.
C15_BufferResetPerLine ==
    /\ (trace # <<>> /\ Decoded(Len(trace))) => buf = <<>>
    /\ (pc = "read" /\ buf # <<>>) =>
          (trace # <<>> /\ trace[Len(trace)].kind = "prefix")
    /\ \A k \in 1..Len(DecodedIterations) :
          /\ k <= Len(lines)
          /\ DecodedIterations[k].line = Logical(lines[k])

\* What does hold of the buffer: it is empty after every line that decoded,
\* and whenever resolve is about to read it holds nothing, or the fragments of
\* the line it is assembling; a failed decode leaves the line in it and is
\* never followed by a read.
C15_BufferEmptyAtLineStart ==
    /\ (trace # <<>> /\ Decoded(Len(trace)) /\ LineBlock(Len(trace)).ok)
          => buf = <<>>
    /\ (trace # <<>> /\ Decoded(Len(trace)) /\ ~LineBlock(Len(trace)).ok)
          => (buf = trace[Len(trace)].line /\ pc # "read" /\ after = "ret")
    /\ (pc = "read" /\ buf # <<>>) =>
          /\ trace # <<>>
          /\ trace[Len(trace)].kind = "prefix"
          /\ buf = trace[Len(trace)].line

\* The events of the terminated lines ls taken whole and in order, up to and
\* including the first line after which resolve returns.
RECURSIVE StreamEvents(_, _)
StreamEvents(v, ls) ==
    IF ls = <<>> THEN <<>>
    ELSE LET it == Iteration(v, [line |-> Logical(Head(ls)),
                                 prefix |-> FALSE, err |-> NoErr], <<>>)
         IN  IF it.cont THEN it.ev \o StreamEvents(v, Tail(ls)) ELSE it.ev

\* C16: what the consumer has received is at every moment the first events of
\* what the loop iterations sent, in their order, with nothing sent that is
\* not received or pending; a decoded line sends at most one event; and when
\* resolve has returned to a consumer that kept receiving, with no Read
\* having failed, the consumer has the events of the lines of the body in
\* stream order up to the terminating line, each once, followed only by what
\* bytes after the last line gave.
C16_EventsInStreamOrder ==
    /\ Emitted = TraceEvents
    /\ IsPrefixOf(out, TraceEvents)
    /\ \A i \in 1..Len(trace) : Decoded(i) => Len(trace[i].ev) <= 1
    /\ (pc = "done" /\ ~abandoned) => out = TraceEvents
    /\ (pc = "done" /\ ~abandoned /\ ~cancelled) =>
          /\ IsPrefixOf(StreamEvents(ver, lines), out)
          /\ tail = <<>> => out = StreamEvents(ver, lines)

\* C16 witness: a text line and a tool-calls line were read to the end of the
\* stream and the consumer has their two events in that order.
C16_Witness ==
    /\ pc = "done"
    /\ ~abandoned
    /\ ~cancelled
    /\ tail = <<>>
    /\ ver = "v2"
    /\ Len(out) = 2
    /\ out[1] = TextEvent(<<"h">>)
    /\ out[2][1] = "tool: "

\* C18: resolve sends at most one error event; the iteration that sent it is
\* the last one, so no line is read or decoded after it; and an event follows
\* the error only as the second event of the read-error branch, the text of
\* the non-empty accumulation buffer.
C18_AtMostOneError ==
    /\ ErrCount(Emitted) <= 1
    /\ \A i \in 1..Len(trace) :
          (\E j \in 1..Len(trace[i].ev) : IsError(trace[i].ev[j])) =>
            /\ i = Len(trace)
            /\ pc # "read"
            /\ after = "ret"
    /\ \A i \in 1..Len(Emitted) :
          IsError(Emitted[i]) =>
            \/ i = Len(Emitted)
            \/ /\ i = Len(Emitted) - 1
               /\ trace[Len(trace)].kind = "err"
               /\ trace[Len(trace)].line # <<>>
               /\ Emitted[i] # ErrorEvent(EOF)
               /\ Emitted[i + 1] = TextEvent(trace[Len(trace)].line)

\* C18 witness: a text line was delivered, then a Read failed in the middle
\* of the next line: the consumer has the text, one error and the salvaged
\* fragment, and resolve has returned.
C18_Witness ==
    /\ pc = "done"
    /\ Len(out) = 3
    /\ out[1] = TextEvent(<<"h">>)
    /\ out[2] = ErrorEvent(ErrCanceled)
    /\ out[3][1] = "text: "

\* C17: if the consumer never abandons the channel then resolve eventually
\* returns, with nothing left to send, and the channel is closed.
C17_ResolveTerminates ==
    []~abandoned => <>(pc = "done" /\ closes = 1 /\ sendq = <<>>)

\* C17 witness: the consumer received an event, the body reached its end and
\* resolve returned and closed the channel.
C17_Witness ==
    /\ ~abandoned
    /\ ~cancelled
    /\ pc = "done"
    /\ closes = 1
    /\ pos = Len(data)
    /\ trace[Len(trace)].kind = "err"
    /\ out # <<>>

\* C12: after a call of makePayload the temperature stored in the Chat and
\* the temperature in the payload are both 0.95 if New was given a negative
\* temperature and both the temperature New was given otherwise, whatever
\* calls came before; the stored temperature is then non-negative.
C12_TemperatureDefault ==
    call.op = "makePayload" =>
        /\ chat.temperature >= 0
        /\ call.ret["temperature"] = chat.temperature
        /\ newArgs.temperature < 0 => chat.temperature = 95
        /\ newArgs.temperature >= 0 => chat.temperature = newArgs.temperature

\* C12 witness: a Chat made with a negative temperature has built a payload,
\* which carries 0.95, and so does the Chat.
C12_Witness ==
    /\ call.op = "makePayload"
    /\ newArgs.temperature < 0
    /\ chat.temperature = 95
    /\ call.ret["temperature"] = 95

\* The mode, safety mode and stop list the Chat is configured with; v1 has the
\* chat endpoint only and neither of the two options.
InChatMode == ver = "v1" \/ chat.isChat

ConfiguredSafety == IF ver = "v2" THEN chat.safety ELSE ""

ConfiguredStops == IF ver = "v2" THEN chat.stopSequences ELSE <<>>

\* C13: the payload makePayload returns has "seed" exactly when the mode is
\* chat and the seed is positive, "safety_mode" exactly when the mode is chat
\* and a safety mode is set, "stop_sequences" exactly when the stop list is
\* non-empty, in either mode, each with the configured value; and in
\* completion mode it has neither "tools" nor "tool_results".
C13_OptionalFields ==
    call.op = "makePayload" =>
        LET p == call.ret
            K == DOMAIN call.ret
        IN  /\ "seed" \in K <=> (InChatMode /\ chat.seed > 0)
            /\ "seed" \in K => p["seed"] = chat.seed
            /\ "safety_mode" \in K <=> (InChatMode /\ ConfiguredSafety # "")
            /\ "safety_mode" \in K => p["safety_mode"] = ConfiguredSafety
            /\ "stop_sequences" \in K <=> ConfiguredStops # <<>>
            /\ "stop_sequences" \in K => p["stop_sequences"] = ConfiguredStops
            /\ ~InChatMode => ("tools" \notin K /\ "tool_results" \notin K)

\* C13 witness: a Chat in completion mode with a seed, a safety mode and a
\* stop list set has built a payload: of the optional fields it has the stop
\* list only, and no tools.
C13_Witness ==
    /\ call.op = "makePayload"
    /\ ver = "v2"
    /\ ~chat.isChat
    /\ chat.seed = 2
    /\ chat.safety = "STRICT"
    /\ chat.stopSequences = <<"a">>
    /\ DOMAIN call.ret \cap {"seed", "safety_mode", "stop_sequences", "tools",
                              "tool_results"} = {"stop_sequences"}

\* In chat mode the same configuration puts all three optional fields in.
C13_WitnessChat ==
    /\ call.op = "makePayload"
    /\ ver = "v2"
    /\ chat.isChat
    /\ {"seed", "safety_mode", "stop_sequences", "tools", "tool_results"}
          \subseteq DOMAIN call.ret

\* Call c is a setter call with an argument the setter refuses.
Refused(c) ==
    \/ c.op \in {"MaxTokens", "TopK", "Seed"} /\ c.arg < 1
    \/ c.op = "StopSequences" /\ Len(c.arg) = 0

\* C19: in a Chat of v2, after New and any calls of the setters, maxTokens
\* and topK are at least 1 and the seed is -1 or at least 1; a setter call
\* with a refused argument changes no field of the Chat; and a positive seed
\* stays positive and a non-empty stop list stays non-empty, whatever is
\* called.
C19_SettersKeepValid ==
    /\ [](ver = "v2" =>
            /\ chat.maxTokens >= 1
            /\ chat.topK >= 1
            /\ chat.seed = -1 \/ chat.seed >= 1)
    /\ [][(ver = "v2" /\ Refused(call')) => chat' = chat]_vars
    /\ [][(ver = "v2" /\ chat.seed >= 1) => chat'.seed >= 1]_vars
    /\ [][(ver = "v2" /\ Len(chat.stopSequences) > 0) =>
             Len(chat'.stopSequences) > 0]_vars

\* C19 witness: with seed 2, 2 max tokens, top-k 2 and a stop list set, the
\* last call was Seed(0), and all four are as they were set.
C19_Witness ==
    /\ ver = "v2"
    /\ call.op = "Seed"
    /\ call.arg = 0
    /\ chat.seed = 2
    /\ chat.maxTokens = 2
    /\ chat.topK = 2
    /\ chat.stopSequences = <<"b">>

\* The entry of message i as the claim has it: with the role in front if the
\* message is the first or its role is not that of the message before it.
MergedEntry(i) ==
    IF i = 1 \/ messages[i].role # messages[i - 1].role
    THEN Header(messages[i].role, messages[i].content)
    ELSE Bare(messages[i].content)

\* C20: MergeMessages returns the empty string for the empty list and
\* otherwise the entries of the messages in order, an entry having the role
\* in front exactly when the message is the first or its role differs from
\* the role of the message before it.
C20_MergeMessages ==
    mpc = "done" =>
        mret = Concat([i \in 1..Len(messages) |-> MergedEntry(i)])

\* The same where every message has a role: there the code does as C20 says.
C20_MergeMessagesNamedRoles ==
    (mpc = "done" /\ \A i \in 1..Len(messages) : messages[i].role # "") =>
        mret = Concat([i \in 1..Len(messages) |-> MergedEntry(i)])

====
